---- MODULE Spec2Model ----
(***************************************************************************)
(* A model of check_appointments_once.py: DresdnAppointmentChecker.         *)
(*                                                                         *)
(* Python values are modelled by strings ("True", "False", "None").  A     *)
(* text (a response body, a URL) is a sequence of segments; a segment is   *)
(* an indivisible piece of text, so `needle in text` is "some segment is   *)
(* the needle" and str.startswith('/') looks at the first segment.         *)
(* Standard output is assumed writable: print() never raises.              *)
(***************************************************************************)
EXTENDS Integers, Sequences, FiniteSets, TLC

\* ------------------------------------------------------------------ bounds
\* run_once calls explored in one run of the program
MaxChecks == 3
\* segments of a response body
MaxBody == 2
\* <input> elements of the location page
MaxInputs == 2
\* segments of a form's action attribute
MaxAction == 3

SeqsUpTo(S, n) == UNION {[1..k -> S] : k \in 0..n}

\* ------------------------------------------------------- Python constants
None == "None"
True == "True"
False == "False"

\* ------------------------------------------------------------------- URLs
base_url == <<"https://termine-buergerbuero.dresden.de">>
start_url == base_url \o <<"/", "select2?md=1">>
final_url == base_url \o <<"/", "location?mdt=9&select_cnc=1&cnc-442=1">>

\* ------------------------------------------------------------------ texts
office == "Ausländerbehörde Dresden 33.41"
street == "Theaterstraße"
no_appointments_text == "Derzeit sind alle verfügbaren Termine ausgebucht. Bitte versuchen Sie es zu einem späteren Zeitpunkt"
\* the first sentence of no_appointments_text alone
half_apology == "Derzeit sind alle verfügbaren Termine ausgebucht."

\* str.lower() of one segment
Lower(s) ==
  CASE s = "Fehler" -> "fehler"
    [] s = "ERROR" -> "error"
    [] s = office -> "ausländerbehörde dresden 33.41"
    [] s = street -> "theaterstraße"
    [] s = no_appointments_text -> "derzeit sind alle verfügbaren termine ausgebucht. bitte versuchen sie es zu einem späteren zeitpunkt"
    [] s = half_apology -> "derzeit sind alle verfügbaren termine ausgebucht."
    [] OTHER -> s

\* str.lower() of a text
LowerText(text) == [i \in DOMAIN text |-> Lower(text[i])]

\* needle in text
Contains(text, needle) == \E i \in DOMAIN text : text[i] = needle

\* ------------------------------------------------- check_appointments gates
\* line 51: `not set_cookie` (header absent, or present and empty)
NoCookie(set_cookie) == set_cookie = None \/ set_cookie = ""

\* line 64
IsErrorPage(text) ==
  Contains(LowerText(text), "fehler") \/ Contains(LowerText(text), "error")

\* line 69
LocationMissingBoth(text) == ~Contains(text, office) /\ ~Contains(text, street)
LocationMissing(text) == ~Contains(text, office) \/ ~Contains(text, street)

\* soup.find('input', attrs): index of the first <input> whose attributes
\* all match, 0 (None) when there is none
Matches(inp, withId) ==
  /\ inp.type = "submit"
  /\ inp.value = "Weiter"
  /\ withId => inp.id = "WeiterButton"

Find(inputs, withId) ==
  IF \E i \in DOMAIN inputs : Matches(inputs[i], withId)
  THEN CHOOSE i \in DOMAIN inputs :
         /\ Matches(inputs[i], withId)
         /\ \A j \in 1..(i - 1) : ~Matches(inputs[j], withId)
  ELSE 0

\* lines 74-78: prefer the button with id WeiterButton, else any Weiter submit
weiter_button(inputs) ==
  IF Find(inputs, TRUE) # 0 THEN Find(inputs, TRUE) ELSE Find(inputs, FALSE)

\* line 83: weiter_button.find_parent('form'); 0 is None
find_parent(inputs, b) == inputs[b].form

\* lines 87-92: the dict built from the inputs of form f, in document order
Put(d, k, v) == [x \in (DOMAIN d) \cup {k} |-> IF x = k THEN v ELSE d[x]]

InputValue(inp) == IF inp.value = None THEN "" ELSE inp.value

RECURSIVE CollectKeepFirst(_, _, _)
CollectKeepFirst(inputs, f, n) ==
  IF n = 0 THEN <<>>
  ELSE LET d == CollectKeepFirst(inputs, f, n - 1)
           inp == inputs[n]
       IN IF inp.form = f /\ inp.name # None /\ inp.name # "" /\ inp.name \notin DOMAIN d
          THEN Put(d, inp.name, InputValue(inp))
          ELSE d

RECURSIVE Collect(_, _, _)
Collect(inputs, f, n) ==
  IF n = 0 THEN <<>>
  ELSE LET d == Collect(inputs, f, n - 1)
           inp == inputs[n]
       IN IF inp.form = f /\ inp.name # None /\ inp.name # ""
          THEN Put(d, inp.name, InputValue(inp))
          ELSE d

\* lines 94-98: form.get('action', '') joined to base_url
ActionOf(form) == IF form.has_action THEN form.action ELSE <<>>

ResolveAlwaysSlash(action) == base_url \o <<"/">> \o action
Resolve(action) ==
  IF Len(action) > 0 /\ action[1] = "/"
  THEN base_url \o action
  ELSE base_url \o <<"/">> \o action

\* lines 110-114
ClassifyAnyApology(final_page_text) ==
  IF Contains(final_page_text, no_appointments_text) \/ Contains(final_page_text, half_apology)
  THEN [available |-> False, message |-> "no_appointments"]
  ELSE [available |-> True, message |-> "available"]
Classify(final_page_text) ==
  IF Contains(final_page_text, no_appointments_text)
  THEN [available |-> False, message |-> "no_appointments"]
  ELSE [available |-> True, message |-> "available"]

\* lines 61-98: what check_appointments does with the location page, up to
\* the POST it is about to issue
Navigate(pg) ==
  IF IsErrorPage(pg.text)
  THEN [post |-> FALSE, result |-> [available |-> False, message |-> "error_page"]]
  ELSE IF LocationMissing(pg.text)
  THEN [post |-> FALSE, result |-> [available |-> False, message |-> "no_location"]]
  ELSE IF weiter_button(pg.inputs) = 0
  THEN [post |-> FALSE, result |-> [available |-> False, message |-> "no_button"]]
  ELSE IF find_parent(pg.inputs, weiter_button(pg.inputs)) = 0
  THEN [post |-> FALSE, result |-> [available |-> False, message |-> "no_form"]]
  ELSE LET f == find_parent(pg.inputs, weiter_button(pg.inputs))
       IN [post |-> TRUE,
           form_data |-> Collect(pg.inputs, f, Len(pg.inputs)),
           form_url |-> Resolve(ActionOf(pg.forms[f]))]

\* ------------------------------------------------------------- exceptions
RequestExceptions == {"ConnectionError", "Timeout", "HTTPError"}
SmtpExceptions == {"OSError", "SMTPException", "SMTPAuthenticationError"}
\* the classes derived from Exception; KeyboardInterrupt is not one of them
Exceptions ==
  RequestExceptions \cup SmtpExceptions \cup {"KeyError", "TypeError", "ValueError"}

\* lines 116-119: the except clauses of check_appointments
check_handler(exc) ==
  IF exc \in RequestExceptions THEN "network_error"
  ELSE IF exc \in Exceptions THEN "navigation_error"
  ELSE "propagate"

\* lines 138-140: the except clause of send_email
send_handler_smtp_only(exc) ==
  IF exc \in {"SMTPException", "SMTPAuthenticationError"} THEN "return_false" ELSE "propagate"
send_handler(exc) == IF exc \in Exceptions THEN "return_false" ELSE "propagate"

\* lines 173-178: the except clauses of the loop of run_continuously
loop_handler(exc) ==
  IF exc = "KeyboardInterrupt" THEN "break"
  ELSE IF exc \in Exceptions THEN "recover"
  ELSE "propagate"

\* the statements of run_continuously inside its try block (lines 171-172),
\* with everything run_once calls
InTry == {"call", "get1", "get2", "post", "ret", "send", "update", "sleep"}
\* the positions inside check_appointments' try block (lines 44-114)
InCheck == {"get1", "get2", "post"}
\* the positions of the loop of run_continuously (lines 169-178)
InLoop == InTry \cup {"recover"}

\* where control goes when exc is raised at position at: the result
\* check_appointments returns, or the position the program continues at
UnwindRetry(md, at, exc) ==
  IF at \in InCheck /\ check_handler(exc) # "propagate"
  THEN [pc |-> at, result |-> [available |-> None, message |-> None]]
  ELSE IF md = "continuous" /\ at \in InTry /\ loop_handler(exc) = "break"
  THEN [pc |-> "stopped"]
  ELSE IF md = "continuous" /\ at \in InTry /\ loop_handler(exc) = "recover"
  THEN [pc |-> "recover"]
  ELSE [pc |-> "crashed"]
Unwind(md, at, exc) ==
  IF at \in InCheck /\ check_handler(exc) # "propagate"
  THEN [pc |-> "ret", result |-> [available |-> False, message |-> check_handler(exc)]]
  ELSE IF md = "continuous" /\ at \in InTry /\ loop_handler(exc) = "break"
  THEN [pc |-> "stopped"]
  ELSE IF md = "continuous" /\ at \in InTry /\ loop_handler(exc) = "recover"
  THEN [pc |-> "recover"]
  ELSE [pc |-> "crashed"]

\* line 150
ShouldNotifyWheneverAvailable(available, state) == available = True
ShouldNotify(available, state) == available = True /\ state # available

\* line 156: the value run_once stores in last_state
NewLastStateKeptOnFailure(available, state, sendResult) ==
  IF available = True THEN True ELSE state
NewLastStateAfterDelivery(available, state, sendResult) ==
  IF available = True /\ sendResult = False THEN state ELSE available
NewLastState(available, state, sendResult) == available

\* --------------------------------------------------------------- e-mail
\* what the SMTP session of lines 124-134 can do, by the configuration
SmtpOutcomes(config) ==
  CASE config = "complete" ->
         {"sent", "connect_failed", "timeout", "starttls_failed", "auth_failed", "send_failed"}
    [] config = "none_values" -> {"connect_failed", "starttls_failed", "auth_failed"}
    [] OTHER -> {"key_missing"}

ExceptionOf(outcome) ==
  CASE outcome = "connect_failed" -> "OSError"
    [] outcome = "timeout" -> "OSError"
    [] outcome = "starttls_failed" -> "SMTPException"
    [] outcome = "auth_failed" -> "SMTPAuthenticationError"
    [] outcome = "send_failed" -> "SMTPException"
    [] outcome = "key_missing" -> "KeyError"
    [] OTHER -> None

\* lines 121-140: "True", "False", or "raise" when the exception escapes
send_email(outcome) ==
  IF outcome = "sent" THEN True
  ELSE IF send_handler(ExceptionOf(outcome)) = "return_false" THEN False
  ELSE "raise"

\* ----------------------------------------------------------- environment
default_interval == 300

\* the email_config dict: every key set; every key present, the three read
\* from the environment None (lines 186-188); or a key missing
Configs == {"complete", "none_values", "no_sender_key", "no_recipient_key"}

\* what the program can be started with: __main__ (lines 181-198) builds a
\* dict with all five keys and calls run_once; run_continuously is called
\* with any dict and any check_interval (time.sleep refuses a negative one)
Starts ==
  {[mode |-> "once", config |-> c, interval |-> default_interval] :
     c \in {"complete", "none_values"}}
  \cup {[mode |-> "continuous", config |-> c, interval |-> default_interval] :
          c \in Configs}
  \cup {[mode |-> "continuous", config |-> "complete", interval |-> -1]}

\* the <input> elements of a page: its attributes (None when absent) and
\* the <form> it lies in (0 when in none)
Form(action) == [has_action |-> TRUE, action |-> action]
NoAction == [has_action |-> FALSE, action |-> <<>>]
\* the <form> elements of the pages, by their action attributes
RefForms == <<Form(<<"/", "suggest">>), Form(<<"submit.php">>)>>
NForms == Len(RefForms)

\* inputs that differ in what soup.find looks at
Controls ==
  [type : {"submit", "hidden"}, value : {None, "", "Weiter"}, id : {None},
   name : {None}, form : 0..NForms]
  \cup [type : {"submit"}, value : {"Weiter"}, id : {"WeiterButton"},
        name : {None}, form : 0..NForms]
\* inputs that differ in what the loop of lines 88-92 looks at
Fields ==
  [type : {"hidden"}, value : {None, "", "1"}, id : {None},
   name : {None, "", "a", "b"}, form : 0..NForms]

Hidden(n, v, f) == [type |-> "hidden", value |-> v, id |-> None, name |-> n, form |-> f]
Submit(i, n, f) == [type |-> "submit", value |-> "Weiter", id |-> i, name |-> n, form |-> f]

RefText == <<office, street>>
RefInputs == <<Hidden("a", "1", 1), Hidden("b", "", 1), Submit("WeiterButton", None, 1)>>
RefPage == [text |-> RefText, inputs |-> RefInputs, forms |-> RefForms]
NoPage == [text |-> <<>>, inputs |-> <<>>, forms |-> <<>>]

\* a few pages, one for each way through lines 61-98
FixInputs ==
  { RefInputs,
    <<Hidden("a", "1", 1)>>,
    <<Submit(None, None, 0), Hidden("a", "1", 1)>>,
    <<Hidden("a", "1", 1), Hidden("a", "", 2), Submit(None, "b", 2)>> }
FixTexts == {RefText, <<office, "Fehler", street>>, <<street>>}

TextSegments == {"Fehler", "ERROR", office, street}
ActionSegments == {"/", "x", "submit.php"}
FinalSegments == {no_appointments_text, half_apology, "ERROR"}

\* The location pages a run is tried on.  A single-shot run: every text,
\* every list of controls, every list of fields before the Weiter button
\* (named or not) and every action attribute, each with the rest of RefPage.
\* The loop of run_continuously: the fixed pages.
Axes(md) == IF md = "once" THEN {"text", "controls", "fields", "action"} ELSE {"fixed"}

AxisBound(axis) ==
  CASE axis = "text" -> MaxBody
    [] axis = "controls" -> MaxInputs
    [] axis = "fields" -> MaxInputs
    [] axis = "action" -> MaxAction
    [] OTHER -> 0

AxisDomain(axis) ==
  CASE axis = "text" -> TextSegments
    [] axis = "controls" -> Controls
    [] axis = "fields" -> Fields
    [] axis = "action" -> ActionSegments
    [] OTHER -> {}

\* what is chosen next to the list x of the axis
AxisOptions(axis) ==
  CASE axis = "text" -> FixInputs
    [] axis = "fields" -> {None, "a"}
    [] axis = "action" -> {TRUE, FALSE}
    [] axis = "fixed" -> {[text |-> t, inputs |-> i, forms |-> RefForms] :
                            t \in FixTexts, i \in FixInputs}
    [] OTHER -> {None}

PageOf(axis, x, o) ==
  CASE axis = "text" -> [text |-> x, inputs |-> o, forms |-> RefForms]
    [] axis = "controls" -> [text |-> RefText, inputs |-> x, forms |-> RefForms]
    [] axis = "fields" ->
         [text |-> RefText, inputs |-> x \o <<Submit("WeiterButton", o, 1)>>,
          forms |-> RefForms]
    [] axis = "action" ->
         [text |-> RefText, inputs |-> RefInputs,
          forms |-> <<IF o THEN Form(x) ELSE NoAction, Form(<<"submit.php">>)>>]
    [] OTHER -> o

\* the bodies the POST is answered with: every one after RefPage in a
\* single-shot run, a few otherwise
FinalTexts(md, pg) ==
  IF md = "once" /\ pg = RefPage
  THEN SeqsUpTo(FinalSegments, MaxBody)
  ELSE {<<>>, <<no_appointments_text>>, <<half_apology, "ERROR">>}

Cookies == {None, "", "sid=1"}

\* ------------------------------------------------------------------ state
VARIABLES
  mode,            \* "once": __main__; "continuous": run_continuously
  email_config,    \* self.email_config
  check_interval,  \* the argument of run_continuously
  pc,              \* the statement the program is at
  last_state,      \* self.last_state
  nChecks,         \* run_once calls started
  reqs,            \* the HTTP requests issued by the current check_appointments
  set_cookie,      \* line 50
  page,            \* response, while it is the answer to the GET of final_url
  form_data,       \* line 87
  form_url,        \* lines 95-98
  final_page_text, \* line 105
  result,          \* what check_appointments returned
  sent,            \* send_email was called by the current run_once
  send_result,     \* what that call returned
  smtp,            \* what the SMTP session of that call did
  calls,           \* the run_once calls that returned
  interruptedAt    \* where a KeyboardInterrupt was raised

vars ==
  <<mode, email_config, check_interval, pc, last_state, nChecks, reqs, set_cookie,
    page, form_data, form_url, final_page_text, result, sent, send_result, smtp, calls,
    interruptedAt>>

config_vars == <<mode, email_config, check_interval>>
check_vars == <<reqs, set_cookie, page, form_data, form_url, final_page_text>>
notify_vars == <<sent, send_result, smtp>>

NoResult == [available |-> None, message |-> None]

\* the locals of check_appointments are gone once it is left
Dropped ==
  /\ reqs' = <<>>
  /\ set_cookie' = None
  /\ page' = NoPage
  /\ form_data' = <<>>
  /\ form_url' = <<>>
  /\ final_page_text' = <<>>
\* a request, and the exception it ended with (None when it was answered
\* and raise_for_status passed)
Get(url, exc) == [method |-> "GET", url |-> url, data |-> <<>>, fault |-> exc]
Post(url, data, exc) == [method |-> "POST", url |-> url, data |-> data, fault |-> exc]

\* lines 11-37, and the entry point
Init ==
  /\ \E s \in Starts :
       /\ mode = s.mode
       /\ email_config = s.config
       /\ check_interval = s.interval
  /\ pc = IF mode = "once" THEN "call" ELSE "start"
  /\ last_state = None
  /\ nChecks = 0
  /\ reqs = <<>>
  /\ set_cookie = None
  /\ page = NoPage
  /\ form_data = <<>>
  /\ form_url = <<>>
  /\ final_page_text = <<>>
  /\ result = NoResult
  /\ sent = FALSE
  /\ send_result = None
  /\ smtp = None
  /\ calls = <<>>
  /\ interruptedAt = None

\* exc raised at the current statement
Raise(exc) ==
  LET u == Unwind(mode, pc, exc)
  IN /\ pc' = u.pc
     /\ result' = IF u.pc = "ret" THEN u.result ELSE result

\* lines 164-167: the banner reads email_config['recipient_email']
Banner ==
  /\ pc = "start"
  /\ IF email_config = "no_recipient_key" THEN Raise("KeyError") ELSE pc' = "call" /\ result' = result
  /\ UNCHANGED <<config_vars, last_state, nChecks, check_vars, notify_vars, calls, interruptedAt>>

\* lines 171/198 and 144-146: run_once is called and calls check_appointments
RunOnce ==
  /\ pc = "call"
  /\ nChecks < MaxChecks
  /\ nChecks' = nChecks + 1
  /\ pc' = "get1"
  /\ result' = NoResult
  /\ sent' = FALSE
  /\ send_result' = None
  /\ smtp' = None
  /\ UNCHANGED <<config_vars, last_state, check_vars, calls, interruptedAt>>

\* lines 47-52
GetStartFails ==
  /\ pc = "get1"
  /\ \E exc \in RequestExceptions :
     /\ reqs' = Append(reqs, Get(start_url, exc))
     /\ Raise(exc)
     /\ UNCHANGED <<config_vars, last_state, nChecks, set_cookie, page, form_data, form_url,
                    final_page_text, notify_vars, calls, interruptedAt>>

GetStart ==
  /\ pc = "get1"
  /\ \E cookie \in Cookies :
     /\ reqs' = Append(reqs, Get(start_url, None))
     /\ set_cookie' = cookie
     /\ IF NoCookie(cookie)
        THEN pc' = "ret" /\ result' = [available |-> False, message |-> "no_cookie"]
        ELSE pc' = "get2" /\ result' = result
     /\ UNCHANGED <<config_vars, last_state, nChecks, page, form_data, form_url,
                    final_page_text, notify_vars, calls, interruptedAt>>

\* lines 54-59
GetLocationFails ==
  /\ pc = "get2"
  /\ \E exc \in RequestExceptions :
     /\ reqs' = Append(reqs, Get(final_url, exc))
     /\ Raise(exc)
     /\ UNCHANGED <<config_vars, last_state, nChecks, set_cookie, page, form_data, form_url,
                    final_page_text, notify_vars, calls, interruptedAt>>

\* lines 58-98
GetLocation ==
  /\ pc = "get2"
  /\ \E axis \in Axes(mode) : \E k \in 0..AxisBound(axis) :
     \E x \in [1..k -> AxisDomain(axis)] : \E o \in AxisOptions(axis) :
     /\ reqs' = Append(reqs, Get(final_url, None))
     /\ page' = PageOf(axis, x, o)
     /\ LET nav == Navigate(PageOf(axis, x, o))
        IN IF nav.post
           THEN /\ pc' = "post"
                /\ form_data' = nav.form_data
                /\ form_url' = nav.form_url
                /\ result' = result
           ELSE /\ pc' = "ret"
                /\ result' = nav.result
                /\ UNCHANGED <<form_data, form_url>>
     /\ UNCHANGED <<config_vars, last_state, nChecks, set_cookie, final_page_text,
                    notify_vars, calls, interruptedAt>>

\* lines 100-101
PostFormFails ==
  /\ pc = "post"
  /\ \E exc \in RequestExceptions :
     /\ reqs' = Append(reqs, Post(form_url, form_data, exc))
     /\ page' = NoPage
     /\ Raise(exc)
     /\ UNCHANGED <<config_vars, last_state, nChecks, set_cookie, form_data, form_url,
                    final_page_text, notify_vars, calls, interruptedAt>>

\* lines 100-114
PostForm ==
  /\ pc = "post"
  /\ \E text \in FinalTexts(mode, page) :
     /\ reqs' = Append(reqs, Post(form_url, form_data, None))
     /\ page' = NoPage
     /\ final_page_text' = text
     /\ result' = Classify(text)
     /\ pc' = "ret"
     /\ UNCHANGED <<config_vars, last_state, nChecks, set_cookie, form_data, form_url,
                    notify_vars, calls, interruptedAt>>

\* lines 146-150: check_appointments has returned
Decide ==
  /\ pc = "ret"
  /\ pc' = IF ShouldNotify(result.available, last_state) THEN "send" ELSE "update"
  /\ Dropped
  /\ UNCHANGED <<config_vars, last_state, nChecks, result, notify_vars, calls, interruptedAt>>

\* lines 151-154 and 121-140
SendEmail ==
  /\ pc = "send"
  /\ \E outcome \in SmtpOutcomes(email_config) :
     /\ sent' = TRUE
     /\ smtp' = outcome
     /\ IF send_email(outcome) = "raise"
        THEN Raise(ExceptionOf(outcome)) /\ send_result' = send_result
        ELSE pc' = "update" /\ send_result' = send_email(outcome) /\ result' = result
     /\ UNCHANGED <<config_vars, last_state, nChecks, check_vars, calls, interruptedAt>>

\* lines 156-157
Update ==
  /\ pc = "update"
  /\ last_state' = NewLastState(result.available, last_state, send_result)
  /\ calls' = Append(calls, [start |-> last_state, available |-> result.available,
                             message |-> result.message, sent |-> sent,
                             send_result |-> send_result])
  /\ pc' = IF mode = "once" THEN "done" ELSE "sleep"
  /\ smtp' = None
  /\ UNCHANGED <<config_vars, nChecks, check_vars, result, sent, send_result, interruptedAt>>

\* line 172, then line 169
Sleep ==
  /\ pc = "sleep"
  /\ IF check_interval < 0 THEN Raise("ValueError") ELSE pc' = "call" /\ result' = result
  /\ UNCHANGED <<config_vars, last_state, nChecks, check_vars, notify_vars, calls, interruptedAt>>

\* line 178, then line 169
Recover ==
  /\ pc = "recover"
  /\ pc' = "call"
  /\ UNCHANGED <<config_vars, last_state, nChecks, check_vars, result, notify_vars, calls,
                 interruptedAt>>

\* a KeyboardInterrupt (Ctrl-C) arrives while the program is at pc
Running == {"start", "call", "get1", "get2", "post", "ret", "send", "update",
            "sleep", "recover"}

Interrupt ==
  /\ pc \in Running
  /\ interruptedAt' = pc
  /\ Raise("KeyboardInterrupt")
  /\ Dropped
  /\ UNCHANGED <<config_vars, last_state, nChecks, notify_vars, calls>>

Next ==
  \/ Banner
  \/ RunOnce
  \/ GetStartFails
  \/ GetStart
  \/ GetLocationFails
  \/ GetLocation
  \/ PostFormFails
  \/ PostForm
  \/ Decide
  \/ SendEmail
  \/ Update
  \/ Sleep
  \/ Recover
  \/ Interrupt

Spec == Init /\ [][Next]_vars

\* ------------------------------------------------------------------ claims
ErrorMessages ==
  {"no_cookie", "error_page", "no_location", "no_button", "no_form", "network_error",
   "navigation_error"}

\* the program is between two run_once calls, or the last one has returned
BetweenCalls == pc \in {"call", "sleep", "recover", "done"}

\* run_once call i found appointments and the call before it (if any) did not
IntoAvailable(i) ==
  /\ calls[i].available = True
  /\ i > 1 => calls[i - 1].available = False

Notifications == Cardinality({i \in DOMAIN calls : calls[i].sent})
Availability == [i \in DOMAIN calls |-> calls[i].available]

\* C1: send_email is called in a run_once call exactly when that call's check
\* is available and last_state at its start was not True; so the calls of
\* send_email are the transitions into Available: one for three Available
\* checks in a row, two for Available, not available, Available.
C1_NotifyOnTransition ==
  /\ pc = "send" => result.available = True /\ last_state # True
  /\ pc = "update" => (sent <=> (result.available = True /\ last_state # True))
  /\ \A i \in DOMAIN calls :
       /\ calls[i].start = IF i = 1 THEN None ELSE calls[i - 1].available
       /\ calls[i].sent <=> (calls[i].available = True /\ calls[i].start # True)
       /\ calls[i].sent <=> IntoAvailable(i)
  /\ Availability = <<True, True, True>> => Notifications = 1
  /\ Availability = <<True, False, True>> => Notifications = 2

C1_Witness ==
  /\ Availability = <<True, False, True>>
  /\ Notifications = 2
  /\ BetweenCalls

\* C2: a check that ends in an error or finds everything booked calls
\* send_email not at all and leaves last_state False, so an Available check
\* right after it notifies, whatever came before.
C2_FailureResetsState ==
  \A i \in DOMAIN calls :
    calls[i].message \in ErrorMessages \cup {"no_appointments"} =>
      /\ calls[i].available = False
      /\ ~calls[i].sent
      /\ IF i = Len(calls)
         THEN last_state = False
         ELSE /\ calls[i + 1].start = False
              /\ calls[i + 1].available = True => calls[i + 1].sent

C2_Witness ==
  /\ Len(calls) = 3
  /\ calls[1].available = True
  /\ calls[2].message = "network_error"
  /\ calls[3].available = True
  /\ calls[3].sent

\* the gates of a check, read off the responses
ErrorWords == {"fehler", "Fehler", "FEHLER", "error", "Error", "ERROR"}
Range(f) == {f[i] : i \in DOMAIN f}
GatesPassed(cookie, pg) ==
  /\ cookie # None
  /\ Range(pg.text) \cap ErrorWords = {}
  /\ {office, street} \subseteq Range(pg.text)
  /\ \E i \in DOMAIN pg.inputs :
       /\ pg.inputs[i].type = "submit"
       /\ pg.inputs[i].value = "Weiter"
       /\ pg.inputs[i].form # 0
LacksWeiter(pg) ==
  \A i \in DOMAIN pg.inputs : ~(pg.inputs[i].type = "submit" /\ pg.inputs[i].value = "Weiter")
Posted == \E i \in DOMAIN reqs : reqs[i].method = "POST"

\* C3: the POST is issued only after a Set-Cookie header, a location page
\* without 'fehler'/'error' in any case and with both location markers, and
\* a Weiter submit input inside a form; a check that fails a gate (a page
\* without the Weiter control in particular) returns an error without a POST.
C3_PostOnlyAfterGates ==
  /\ [](/\ pc = "post" => GatesPassed(set_cookie, page)
        /\ (pc = "ret" /\ ~Posted) =>
             /\ result.available = False
             /\ result.message \in ErrorMessages
        /\ (pc = "ret" /\ page # NoPage /\ LacksWeiter(page)) =>
             /\ ~Posted
             /\ result.message \in {"error_page", "no_location", "no_button"})
  /\ [][Posted' /\ ~Posted => GatesPassed(set_cookie, page)]_vars

C3_Witness ==
  /\ pc = "ret"
  /\ Len(reqs) = 2
  /\ Range(page.text) = {office, street}
  /\ page.inputs # <<>>
  /\ LacksWeiter(page)
  /\ result.message = "no_button"

\* C4: when the POST is answered, the result is not available if the body
\* contains the whole fully-booked sentence and available otherwise,
\* whatever else the body holds.
C4_ApologyDecides ==
  (pc = "ret" /\ Len(reqs) = 3 /\ reqs[3].fault = None) =>
    IF no_appointments_text \in Range(final_page_text)
    THEN result = [available |-> False, message |-> "no_appointments"]
    ELSE result = [available |-> True, message |-> "available"]

C4_Witness ==
  /\ pc = "ret"
  /\ final_page_text = <<half_apology, "ERROR">>
  /\ result.available = True

\* C5: a KeyboardInterrupt raised anywhere in the loop of run_continuously
\* ends run_continuously by a normal return.
C5_InterruptStopsCleanly ==
  (mode = "continuous" /\ interruptedAt \in InLoop) => pc = "stopped"

\* a step of the program that is no KeyboardInterrupt
Uninterrupted == interruptedAt' = interruptedAt
LastCallFailedToSend ==
  /\ calls # <<>>
  /\ calls[Len(calls)].sent
  /\ calls[Len(calls)].send_result = False

\* C6: whatever fails in send_email, it returns False; run_once then
\* returns, and the loop goes on to its inter-check sleep and (the interval
\* being one time.sleep takes) to the next check, not to the recovery sleep.
C6_SendFailureIsContained ==
  [][Uninterrupted =>
       /\ pc = "send" =>
            /\ pc' = "update"
            /\ send_result' = IF smtp' = "sent" THEN True ELSE False
       /\ (pc = "update" /\ sent /\ send_result = False) =>
            /\ pc' = IF mode = "continuous" THEN "sleep" ELSE "done"
            /\ Len(calls') = Len(calls) + 1
       /\ (pc = "sleep" /\ LastCallFailedToSend /\ check_interval >= 0) => pc' = "call"]_vars

C6_Witness ==
  /\ mode = "continuous"
  /\ email_config = "none_values"
  /\ pc = "call"
  /\ Len(calls) = 2
  /\ calls[1].sent /\ calls[1].send_result = False

\* C7: a check issues GET start_url, GET final_url and the POST in this
\* order, each at most once; a request that fails is the last one of the
\* check, which returns a network error; and a check begins only when the
\* one before it has returned.
C7_RequestsInOrder ==
  /\ Len(reqs) <= 3
  /\ \A i \in DOMAIN reqs :
       /\ i = 1 => reqs[i].method = "GET" /\ reqs[i].url = start_url
       /\ i = 2 => reqs[i].method = "GET" /\ reqs[i].url = final_url
       /\ i = 3 => reqs[i].method = "POST" /\ reqs[i].url = form_url
       /\ reqs[i].fault # None =>
            /\ i = Len(reqs)
            /\ pc = "ret"
            /\ result = [available |-> False, message |-> "network_error"]
  /\ reqs # <<>> => pc \in {"get2", "post", "ret"}
  /\ pc \in {"get1", "get2", "post", "ret", "send", "update"} => nChecks = Len(calls) + 1
  /\ BetweenCalls \/ pc = "start" => nChecks = Len(calls)

C7_Witness ==
  /\ nChecks = 2
  /\ Len(reqs) = 2
  /\ reqs[2].fault = "Timeout"
  /\ pc = "ret"

\* the form around the Weiter button of the page, and its action attribute
EnclosingForm(pg) == pg.inputs[weiter_button(pg.inputs)].form
EnclosingAction(pg) == ActionOf(pg.forms[EnclosingForm(pg)])
\* a path without the slash it starts with, if it starts with one
Unslashed(path) == IF path # <<>> /\ Head(path) = "/" THEN Tail(path) ELSE path
OneSlashAfterBase(url) ==
  LET n == Len(base_url)
  IN /\ Len(url) > n
     /\ SubSeq(url, 1, n) = base_url
     /\ url[n + 1] = "/"
     /\ Len(url) > n + 1 => url[n + 2] # "/"

\* C8 as stated: in the resolved URL exactly one slash separates the base
\* URL from the path, whatever the action.
C8_ExactlyOneSlash == pc = "post" => OneSlashAfterBase(form_url)

\* C8, amended: an action starting with '/' resolves to base + action, any
\* other to base + '/' + action; exactly one slash separates base and path
\* unless the action starts with two slashes.
C8_ResolvedAction ==
  pc = "post" =>
    LET action == EnclosingAction(page)
    IN /\ form_url = base_url \o <<"/">> \o Unslashed(action)
       /\ action = <<"submit.php">> => form_url = base_url \o <<"/", "submit.php">>
       /\ action = <<"/", "x">> => form_url = base_url \o <<"/", "x">>
       /\ ~(Len(action) >= 2 /\ action[1] = "/" /\ action[2] = "/") =>
            OneSlashAfterBase(form_url)

C8_Witness ==
  /\ pc = "post"
  /\ EnclosingAction(page) = <<"/", "x">>
  /\ form_url = base_url \o <<"/", "x">>

\* the inputs of the page that lie in its Weiter button's form and have a
\* (non-empty) name
Named(pg) ==
  {i \in DOMAIN pg.inputs :
     /\ pg.inputs[i].form = EnclosingForm(pg)
     /\ pg.inputs[i].name \notin {None, ""}}
ValueAttr(inp) == IF inp.value = None THEN "" ELSE inp.value

\* C9 as stated: the field map holds every named input of the form with its
\* value, and nothing else.
C9_EveryNamedInput ==
  pc = "post" =>
    /\ DOMAIN form_data = {page.inputs[i].name : i \in Named(page)}
    /\ \A i \in Named(page) : form_data[page.inputs[i].name] = ValueAttr(page.inputs[i])

\* C9, amended: the field map holds exactly the names of the named inputs of
\* the form, each with the value ('' when empty or absent) of the last input
\* of that name in the form; with no name twice that is every named input
\* with its value.
C9_LastNamedInput ==
  pc = "post" =>
    /\ DOMAIN form_data = {page.inputs[i].name : i \in Named(page)}
    /\ \A i \in Named(page) :
         (\A j \in Named(page) : page.inputs[j].name = page.inputs[i].name => j <= i)
           => form_data[page.inputs[i].name] = ValueAttr(page.inputs[i])

C9_Witness ==
  /\ pc = "post"
  /\ Len(page.inputs) = 3
  /\ page.inputs[1].form = 1 /\ page.inputs[1].name = "a" /\ page.inputs[1].value = "1"
  /\ page.inputs[2].form = 1 /\ page.inputs[2].name = "b" /\ page.inputs[2].value = ""
  /\ DOMAIN form_data = {"a", "b"}
  /\ form_data["a"] = "1" /\ form_data["b"] = ""

\* C10: when send_email returns False on a transition into Available,
\* last_state becomes True all the same, and the Available checks that follow
\* directly call send_email no more.
C10_FailedSendNotRetried ==
  \A i \in DOMAIN calls :
    (calls[i].sent /\ calls[i].send_result = False) =>
      /\ calls[i].available = True
      /\ IF i = Len(calls)
         THEN last_state = True
         ELSE /\ calls[i + 1].start = True
              /\ ~calls[i + 1].sent

C10_Witness ==
  /\ Len(calls) = 3
  /\ calls[1].sent /\ calls[1].send_result = False
  /\ calls[2].available = True /\ ~calls[2].sent
  /\ calls[3].available = True /\ ~calls[3].sent

====
